---- MODULE Spec2Model ----
(***************************************************************************)
(* Model of src/_terminal-utils.ts: the TerminalManager class bound to an  *)
(* output stream, and the pure formatters createProgressBar and            *)
(* centerText.                                                             *)
(*                                                                         *)
(* The output stream is modelled by what the class reads and writes of it: *)
(* its isTTY property (true, false or undefined, read afresh by every      *)
(* method), its columns and rows, and the ordered log of the chunks handed *)
(* to stream.write.                                                        *)
(* Numbers of createProgressBar are exact rationals over integer inputs.   *)
(***************************************************************************)
EXTENDS Integers, Sequences, FiniteSets, TLC

VARIABLES
    isTTY,          \* stream.isTTY: "true", "false" or "undefined"
    log,            \* chunks received by stream.write, oldest first
    cursorHidden,   \* cursorHidden[m]: the private field of manager m
    last,           \* the call (or stream event) that produced this state
    columns,        \* stream.columns: a number, or not reported
    rows,           \* stream.rows: a number, or not reported
    barArgs,        \* arguments of the createProgressBar call under way
    barResult,      \* what that call produced
    barPc,          \* "idle", "call" or "done"
    centerArgs,     \* arguments of the centerText call under way
    centerResult,   \* the string that call returned
    centerPc        \* "idle", "call" or "done"

vars == <<isTTY, log, cursorHidden, last, columns, rows,
          barArgs, barResult, barPc, centerArgs, centerResult, centerPc>>

termVars == <<isTTY, log, cursorHidden, last>>
sizeVars == <<columns, rows>>
barVars == <<barArgs, barResult, barPc>>
centerVars == <<centerArgs, centerResult, centerPc>>

(***************************************************************************)
(* Bounds of the model.                                                    *)
(***************************************************************************)
MaxLog == 3         \* calls are made while the log holds fewer chunks
MaxLines == 1       \* moveUp is called with lines in -1 .. MaxLines

Managers == {"m1", "m2"}    \* two TerminalManager instances on one stream
Texts == {"a", "b"}         \* texts handed to write()
Lines == -1 .. MaxLines
TTYValues == {"true", "false", "undefined"}

(***************************************************************************)
(* TERMINAL_CONTROL: the escape sequences, as the ansi-escapes call that   *)
(* builds each one.  cursorTo's missing y is -1.                           *)
(***************************************************************************)
Esc(k, a, b) == [k |-> k, a |-> a, b |-> b, t |-> ""]
Chunk(text) == [k |-> "text", a |-> 0, b |-> 0, t |-> text]

HIDE_CURSOR == Esc("cursorHide", 0, 0)
SHOW_CURSOR == Esc("cursorShow", 0, 0)
CLEAR_SCREEN == Esc("clearScreen", 0, 0)
CLEAR_LINE == Esc("eraseLine", 0, 0)
MOVE_TO_TOP == Esc("cursorTo", 0, 0)
MOVE_UP(n) == Esc("cursorUp", n, 0)
MOVE_DOWN(n) == Esc("cursorDown", n, 0)
\* MOVE_TO_COLUMN handing its 1-based column to cursorTo as it is
MOVE_TO_COLUMN_NoShift(n) == Esc("cursorTo", n, -1)
MOVE_TO_COLUMN(n) == Esc("cursorTo", n - 1, -1)

(***************************************************************************)
(* The stream.                                                             *)
(***************************************************************************)
\* `this.stream.isTTY` used as a condition: undefined is falsy
Truthy(v) == v = "true"

\* stream.write(data) by manager m: the chunk is appended to what the
\* stream has received
StreamWrite(l, m, data) == Append(l, [by |-> m, d |-> data])

(***************************************************************************)
(* TerminalManager methods: the effect of each on the stream and on the    *)
(* manager's own field.                                                    *)
(***************************************************************************)
\* hideCursor that writes the sequence and forgets to record it
hideCursor_FlagNotSet(m) ==
    IF ~cursorHidden[m] /\ Truthy(isTTY)
    THEN /\ log' = StreamWrite(log, m, HIDE_CURSOR)
         /\ UNCHANGED cursorHidden
    ELSE UNCHANGED <<log, cursorHidden>>

\* hideCursor on a flag shared by every manager of the process
hideCursor_SharedFlag(m) ==
    IF ~cursorHidden[m] /\ Truthy(isTTY)
    THEN /\ log' = StreamWrite(log, m, HIDE_CURSOR)
         /\ cursorHidden' = [x \in Managers |-> TRUE]
    ELSE UNCHANGED <<log, cursorHidden>>

hideCursor(m) ==
    IF ~cursorHidden[m] /\ Truthy(isTTY)
    THEN /\ log' = StreamWrite(log, m, HIDE_CURSOR)
         /\ cursorHidden' = [cursorHidden EXCEPT ![m] = TRUE]
    ELSE UNCHANGED <<log, cursorHidden>>

\* showCursor that writes the sequence and leaves the field set
showCursor_FlagNotReset(m) ==
    IF cursorHidden[m] /\ Truthy(isTTY)
    THEN /\ log' = StreamWrite(log, m, SHOW_CURSOR)
         /\ UNCHANGED cursorHidden
    ELSE UNCHANGED <<log, cursorHidden>>

showCursor(m) ==
    IF cursorHidden[m] /\ Truthy(isTTY)
    THEN /\ log' = StreamWrite(log, m, SHOW_CURSOR)
         /\ cursorHidden' = [cursorHidden EXCEPT ![m] = FALSE]
    ELSE UNCHANGED <<log, cursorHidden>>

\* clearScreen with its two writes in the other order
clearScreen_TopFirst(m) ==
    /\ IF Truthy(isTTY)
       THEN log' = StreamWrite(StreamWrite(log, m, MOVE_TO_TOP), m, CLEAR_SCREEN)
       ELSE UNCHANGED log
    /\ UNCHANGED cursorHidden

clearScreen(m) ==
    /\ IF Truthy(isTTY)
       THEN log' = StreamWrite(StreamWrite(log, m, CLEAR_SCREEN), m, MOVE_TO_TOP)
       ELSE UNCHANGED log
    /\ UNCHANGED cursorHidden

\* clearLine without the isTTY test
clearLine_Ungated(m) ==
    /\ log' = StreamWrite(log, m, CLEAR_LINE)
    /\ UNCHANGED cursorHidden

clearLine(m) ==
    /\ IF Truthy(isTTY)
       THEN log' = StreamWrite(log, m, CLEAR_LINE)
       ELSE UNCHANGED log
    /\ UNCHANGED cursorHidden

\* moveUp that lets a count of zero through
moveUp_ZeroAllowed(m, lines) ==
    /\ IF Truthy(isTTY) /\ lines >= 0
       THEN log' = StreamWrite(log, m, MOVE_UP(lines))
       ELSE UNCHANGED log
    /\ UNCHANGED cursorHidden

moveUp(m, lines) ==
    /\ IF Truthy(isTTY) /\ lines > 0
       THEN log' = StreamWrite(log, m, MOVE_UP(lines))
       ELSE UNCHANGED log
    /\ UNCHANGED cursorHidden

moveToLineStart(m) ==
    /\ IF Truthy(isTTY)
       THEN log' = StreamWrite(log, m, MOVE_TO_COLUMN(1))
       ELSE UNCHANGED log
    /\ UNCHANGED cursorHidden

\* write gated on isTTY like the other methods
write_Gated(m, text) ==
    /\ IF Truthy(isTTY)
       THEN log' = StreamWrite(log, m, Chunk(text))
       ELSE UNCHANGED log
    /\ UNCHANGED cursorHidden

write(m, text) ==
    /\ log' = StreamWrite(log, m, Chunk(text))
    /\ UNCHANGED cursorHidden

cleanup(m) == showCursor(m)

(***************************************************************************)
(* One call of a method by the caller.  `last` records which call it was,  *)
(* how long the log was and what the manager's field held when it began.   *)
(***************************************************************************)
Called(op, m, n, t) ==
    [op |-> op, m |-> m, n |-> n, t |-> t,
     from |-> Len(log), hidden |-> cursorHidden[m]]

CanCall == Len(log) < MaxLog

CallHideCursor(m) ==
    /\ CanCall
    /\ hideCursor(m)
    /\ last' = Called("hideCursor", m, 0, "")
    /\ UNCHANGED <<isTTY, sizeVars, barVars, centerVars>>

CallShowCursor(m) ==
    /\ CanCall
    /\ showCursor(m)
    /\ last' = Called("showCursor", m, 0, "")
    /\ UNCHANGED <<isTTY, sizeVars, barVars, centerVars>>

CallClearScreen(m) ==
    /\ CanCall
    /\ clearScreen(m)
    /\ last' = Called("clearScreen", m, 0, "")
    /\ UNCHANGED <<isTTY, sizeVars, barVars, centerVars>>

CallClearLine(m) ==
    /\ CanCall
    /\ clearLine(m)
    /\ last' = Called("clearLine", m, 0, "")
    /\ UNCHANGED <<isTTY, sizeVars, barVars, centerVars>>

CallMoveUp(m, lines) ==
    /\ CanCall
    /\ moveUp(m, lines)
    /\ last' = Called("moveUp", m, lines, "")
    /\ UNCHANGED <<isTTY, sizeVars, barVars, centerVars>>

CallMoveToLineStart(m) ==
    /\ CanCall
    /\ moveToLineStart(m)
    /\ last' = Called("moveToLineStart", m, 0, "")
    /\ UNCHANGED <<isTTY, sizeVars, barVars, centerVars>>

CallWrite(m, text) ==
    /\ CanCall
    /\ write(m, text)
    /\ last' = Called("write", m, 0, text)
    /\ UNCHANGED <<isTTY, sizeVars, barVars, centerVars>>

CallCleanup(m) ==
    /\ CanCall
    /\ cleanup(m)
    /\ last' = Called("cleanup", m, 0, "")
    /\ UNCHANGED <<isTTY, sizeVars, barVars, centerVars>>

\* The stream's isTTY property is an ordinary property of the stream object,
\* outside the manager's control: between two calls it may come to report
\* another value.
StreamSetTTY(v) ==
    /\ v # isTTY
    /\ isTTY' = v
    /\ last' = [op |-> "stream", m |-> "m1", n |-> 0, t |-> "",
                from |-> Len(log), hidden |-> FALSE]
    /\ UNCHANGED <<log, cursorHidden, sizeVars, barVars, centerVars>>

(***************************************************************************)
(* The getters.  stream.columns and stream.rows are numbers, or are not    *)
(* reported (undefined) by a stream that is no terminal.                   *)
(***************************************************************************)
MaxSize == 2        \* a stream reports sizes in 0 .. MaxSize

Reported(n) == [def |-> TRUE, v |-> n]
NotReported == [def |-> FALSE, v |-> 0]
Sizes == {NotReported} \cup {Reported(n) : n \in 0 .. MaxSize}

\* x || fallback, x a number or undefined: undefined and 0 are falsy
OrElse(x, fallback) == IF x.def /\ x.v # 0 THEN x.v ELSE fallback

\* x ?? fallback: only undefined gives way
Nullish(x, fallback) == IF x = "undefined" THEN fallback ELSE x

\* get width with ?? in place of ||
getWidth_Nullish == IF columns.def THEN columns.v ELSE 80

\* get width(): this.stream.columns || 80
getWidth == OrElse(columns, 80)

\* get height(): this.stream.rows || 24
getHeight == OrElse(rows, 24)

\* get isTTY(): this.stream.isTTY ?? false
getIsTTY == Nullish(isTTY, "false")

\* reading a getter: `last` records the value read (a number in n, the
\* boolean of isTTY in t)
GetWidth(m) ==
    /\ last' = Called("width", m, getWidth, "")
    /\ UNCHANGED <<isTTY, log, cursorHidden, sizeVars, barVars, centerVars>>

GetHeight(m) ==
    /\ last' = Called("height", m, getHeight, "")
    /\ UNCHANGED <<isTTY, log, cursorHidden, sizeVars, barVars, centerVars>>

GetIsTTY(m) ==
    /\ last' = Called("isTTY", m, 0, getIsTTY)
    /\ UNCHANGED <<isTTY, log, cursorHidden, sizeVars, barVars, centerVars>>

\* the terminal is resized, or the stream comes to report no size
StreamResize(c, r) ==
    /\ <<c, r>> # <<columns, rows>>
    /\ columns' = c
    /\ rows' = r
    /\ last' = [op |-> "stream", m |-> "m1", n |-> 0, t |-> "",
                from |-> Len(log), hidden |-> FALSE]
    /\ UNCHANGED <<isTTY, log, cursorHidden, barVars, centerVars>>

(***************************************************************************)
(* createProgressBar.  A string is the sequence of its characters; a       *)
(* colour code, which the function only copies, is one element, and the    *)
(* glyphs U+2588 (full block) and U+2591 (light shade) are written by      *)
(* their code points.  A number                                            *)
(* is an exact fraction [n, d] with d > 0; value, max and width are        *)
(* integers.                                                               *)
(***************************************************************************)
NegValue == 3       \* value ranges over -NegValue .. MaxValue
MaxValue == 5
MaxMax == 5         \* max ranges over -1 .. MaxMax
MaxWidth == 3       \* width ranges over 0 .. MaxWidth

Rat(n, d) == [n |-> n, d |-> d]
RatLess(x, y) == x.n * y.d < y.n * x.d

\* Math.min(x, y)
MathMin(x, y) == IF RatLess(y, x) THEN y ELSE x

\* Math.round(x): the integer nearest x, a half rounding up
MathRound(x) == (2 * x.n + x.d) \div (2 * x.d)

RECURSIVE Digits(_)
\* the decimal digits of an integer n >= 0
Digits(n) ==
    LET digit == SubSeq(<<"0", "1", "2", "3", "4", "5", "6", "7", "8", "9">>,
                        (n % 10) + 1, (n % 10) + 1)
    IN  IF n < 10 THEN digit ELSE Digits(n \div 10) \o digit

\* `${v}` of an integer v
NumberToString(v) == IF v < 0 THEN <<"-">> \o Digits(-v) ELSE Digits(v)

\* x.toFixed(1): the sign apart, the nearest number of tenths (the larger
\* of two equally near), written with one digit after the point
ToFixed1(x) ==
    LET neg == x.n < 0
        a == IF neg THEN Rat(-x.n, x.d) ELSE x
        tenths == (20 * a.n + a.d) \div (2 * a.d)
    IN  (IF neg THEN <<"-">> ELSE <<>>)
            \o Digits(tenths \div 10) \o <<".">> \o Digits(tenths % 10)

\* String.prototype.repeat(count) throws a RangeError for a negative count
RepeatThrows(count) == count < 0

RECURSIVE Repeat(_, _)
\* str.repeat(count), count >= 0
Repeat(str, count) == IF count <= 0 THEN <<>> ELSE str \o Repeat(str, count - 1)

\* a colour of options.colors: supplied (a string, possibly empty) or not
Supplied(code) == [set |-> TRUE, s |-> code]
NotSupplied == [set |-> FALSE, s |-> <<>>]

\* the defaults of the destructured options
DefaultOptions ==
    [showPercentage |-> TRUE,
     showValues |-> FALSE,
     fillChar |-> <<"U+2588">>,
     emptyChar |-> <<"U+2591">>,
     leftBracket |-> <<"[">>,
     rightBracket |-> <<"]">>,
     colors |-> [low |-> NotSupplied, medium |-> NotSupplied,
                 high |-> NotSupplied, critical |-> NotSupplied]]

\* percentage without the cap at 100
Percentage_NoCap(value, max) ==
    IF max > 0 THEN Rat(value * 100, max) ELSE Rat(0, 1)

\* const percentage = max > 0 ? Math.min(100, (value / max) * 100) : 0
Percentage(value, max) ==
    IF max > 0 THEN MathMin(Rat(100, 1), Rat(value * 100, max)) ELSE Rat(0, 1)

\* Math.round((percentage / 100) * width)
FillWidth(percentage, width) ==
    MathRound(Rat(percentage.n * width, percentage.d * 100))

EmptyWidth(percentage, width) == width - FillWidth(percentage, width)

\* percentage >= t
AtLeast(percentage, t) == ~RatLess(percentage, Rat(t, 1))

\* the colour choice with the medium tier tested before the high one
Color_MediumBeforeHigh(percentage, colors) ==
    IF colors.critical.set /\ AtLeast(percentage, 90) THEN colors.critical.s
    ELSE IF colors.medium.set /\ AtLeast(percentage, 50) THEN colors.medium.s
    ELSE IF colors.high.set /\ AtLeast(percentage, 80) THEN colors.high.s
    ELSE IF colors.low.set THEN colors.low.s
    ELSE <<>>

\* the colour chosen for the bar, '' when none
Color(percentage, colors) ==
    IF colors.critical.set /\ AtLeast(percentage, 90) THEN colors.critical.s
    ELSE IF colors.high.set /\ AtLeast(percentage, 80) THEN colors.high.s
    ELSE IF colors.medium.set /\ AtLeast(percentage, 50) THEN colors.medium.s
    ELSE IF colors.low.set THEN colors.low.s
    ELSE <<>>

RESET_COLOR == <<"\\u001B[0m">>

Returned(str) == [threw |-> FALSE, s |-> str]
Thrown(err) == [threw |-> TRUE, s |-> <<err>>]

createProgressBar(value, max, width, options) ==
    LET percentage == Percentage(value, max)
        fillWidth == FillWidth(percentage, width)
        emptyWidth == EmptyWidth(percentage, width)
        color == Color(percentage, options.colors)
        bar == options.leftBracket
                 \o (IF color # <<>> THEN color ELSE <<>>)
                 \o Repeat(options.fillChar, fillWidth)
                 \o Repeat(options.emptyChar, emptyWidth)
                 \o (IF color # <<>> THEN RESET_COLOR ELSE <<>>)
                 \o options.rightBracket
                 \o (IF options.showPercentage
                     THEN <<" ">> \o ToFixed1(percentage) \o <<"%">>
                     ELSE <<>>)
                 \o (IF options.showValues
                     THEN <<" ", "(">> \o NumberToString(value) \o <<"/">>
                              \o NumberToString(max) \o <<")">>
                     ELSE <<>>)
    IN  IF RepeatThrows(fillWidth) \/ RepeatThrows(emptyWidth)
        THEN Thrown("RangeError")
        ELSE Returned(bar)

(***************************************************************************)
(* The calls of createProgressBar that are explored.                       *)
(***************************************************************************)
Values == -NegValue .. MaxValue
Maxes == -1 .. MaxMax
Widths == 0 .. MaxWidth

ColorSets ==
    [low : {NotSupplied, Supplied(<<"<low>">>)},
     medium : {NotSupplied, Supplied(<<"<medium>">>)},
     high : {NotSupplied, Supplied(<<"<high>">>)},
     critical : {NotSupplied, Supplied(<<"<critical>">>), Supplied(<<>>)}]

OptionSets ==
    [showPercentage : BOOLEAN,
     showValues : BOOLEAN,
     fillChar : {<<"U+2588">>, <<"=", ">">>},
     emptyChar : {<<"U+2591">>},
     leftBracket : {<<"[">>},
     rightBracket : {<<"]">>, <<>>},
     colors : ColorSets]

BarCalls == [value : Values, max : Maxes, width : Widths, options : OptionSets]

RunProgressBar ==
    /\ barPc = "call"
    /\ barResult' = createProgressBar(barArgs.value, barArgs.max,
                                      barArgs.width, barArgs.options)
    /\ barPc' = "done"
    /\ UNCHANGED <<barArgs, termVars, sizeVars, centerVars>>

InitBar ==
    /\ isTTY = "undefined"
    /\ log = <<>>
    /\ cursorHidden = [m \in Managers |-> FALSE]
    /\ last = [op |-> "new", m |-> "m1", n |-> 0, t |-> "",
               from |-> 0, hidden |-> FALSE]
    /\ columns = NotReported
    /\ rows = NotReported
    /\ centerArgs = [text |-> <<>>, width |-> 0]
    /\ centerResult = <<>>
    /\ centerPc = "idle"
    /\ barArgs \in BarCalls
    /\ barResult = Returned(<<>>)
    /\ barPc = "call"

NextBar == RunProgressBar

SpecBar == InitBar /\ [][NextBar]_vars

(***************************************************************************)
(* centerText.  A string is the sequence of its characters; four kinds of  *)
(* character stand for what string-width tells apart: "a" (one column),    *)
(* U+4E2D (a double-width ideograph), U+0301 (a combining mark, no column) *)
(* and a whole styling sequence ESC[1m (no column).                        *)
(***************************************************************************)
MaxTextLen == 2         \* text has at most MaxTextLen characters
MaxCenterWidth == 5     \* width ranges over -1 .. MaxCenterWidth

Characters == {"a", "U+4E2D", "U+0301", "ESC[1m"}

CharWidth(c) ==
    CASE c = "U+4E2D" -> 2
      [] c \in {"U+0301", "ESC[1m"} -> 0
      [] OTHER -> 1

RECURSIVE stringWidth(_)
\* stringWidth(text): the terminal columns text occupies
stringWidth(text) ==
    IF text = <<>> THEN 0 ELSE CharWidth(Head(text)) + stringWidth(Tail(text))

\* Math.floor(x)
MathFloor(x) == x.n \div x.d

\* centerText giving the odd column to the left side
centerText_CeilLeft(text, width) ==
    LET textLength == stringWidth(text)
        leftPadding == (width - textLength + 1) \div 2
        rightPadding == width - textLength - leftPadding
    IN  IF textLength >= width
        THEN text
        ELSE Repeat(<<" ">>, leftPadding) \o text \o Repeat(<<" ">>, rightPadding)

centerText(text, width) ==
    LET textLength == stringWidth(text)
        leftPadding == MathFloor(Rat(width - textLength, 2))
        rightPadding == width - textLength - leftPadding
    IN  IF textLength >= width
        THEN text
        ELSE Repeat(<<" ">>, leftPadding) \o text \o Repeat(<<" ">>, rightPadding)

StringsUpTo(n) == UNION {[1 .. k -> Characters] : k \in 0 .. n}
CenterCalls == [text : StringsUpTo(MaxTextLen), width : -1 .. MaxCenterWidth]

RunCenterText ==
    /\ centerPc = "call"
    /\ centerResult' = centerText(centerArgs.text, centerArgs.width)
    /\ centerPc' = "done"
    /\ UNCHANGED <<centerArgs, termVars, sizeVars, barVars>>

InitCenter ==
    /\ isTTY = "undefined"
    /\ log = <<>>
    /\ cursorHidden = [m \in Managers |-> FALSE]
    /\ last = [op |-> "new", m |-> "m1", n |-> 0, t |-> "",
               from |-> 0, hidden |-> FALSE]
    /\ columns = NotReported
    /\ rows = NotReported
    /\ barArgs = [value |-> 0, max |-> 0, width |-> 0, options |-> DefaultOptions]
    /\ barResult = Returned(<<>>)
    /\ barPc = "idle"
    /\ centerArgs \in CenterCalls
    /\ centerResult = <<>>
    /\ centerPc = "call"

NextCenter == RunCenterText

SpecCenter == InitCenter /\ [][NextCenter]_vars

(***************************************************************************)
(* The life of the managers of one stream: any calls in any order, the     *)
(* stream free to change what isTTY reports between them.                  *)
(***************************************************************************)
Init ==
    /\ isTTY \in TTYValues
    /\ log = <<>>
    /\ cursorHidden = [m \in Managers |-> FALSE]
    /\ last = [op |-> "new", m |-> "m1", n |-> 0, t |-> "",
               from |-> 0, hidden |-> FALSE]
    /\ columns = NotReported
    /\ rows = NotReported
    /\ centerArgs = [text |-> <<>>, width |-> 0]
    /\ centerResult = <<>>
    /\ centerPc = "idle"
    /\ barArgs = [value |-> 0, max |-> 0, width |-> 0, options |-> DefaultOptions]
    /\ barResult = Returned(<<>>)
    /\ barPc = "idle"

Next ==
    \/ \E m \in Managers : CallHideCursor(m)
    \/ \E m \in Managers : CallShowCursor(m)
    \/ \E m \in Managers : CallClearScreen(m)
    \/ \E m \in Managers : CallClearLine(m)
    \/ \E m \in Managers, lines \in Lines : CallMoveUp(m, lines)
    \/ \E m \in Managers : CallMoveToLineStart(m)
    \/ \E m \in Managers, text \in Texts : CallWrite(m, text)
    \/ \E m \in Managers : CallCleanup(m)
    \/ \E v \in TTYValues : StreamSetTTY(v)
    \/ \E m \in Managers : GetWidth(m)
    \/ \E m \in Managers : GetHeight(m)
    \/ \E m \in Managers : GetIsTTY(m)

Spec == Init /\ [][Next]_vars

(***************************************************************************)
(* The getters on a stream of any size, resized at any moment, between     *)
(* calls that hide and show the cursor.  (In Spec the stream reports no    *)
(* size.)                                                                  *)
(***************************************************************************)
InitSize ==
    /\ isTTY \in TTYValues
    /\ log = <<>>
    /\ cursorHidden = [m \in Managers |-> FALSE]
    /\ last = [op |-> "new", m |-> "m1", n |-> 0, t |-> "",
               from |-> 0, hidden |-> FALSE]
    /\ columns \in Sizes
    /\ rows \in Sizes
    /\ centerArgs = [text |-> <<>>, width |-> 0]
    /\ centerResult = <<>>
    /\ centerPc = "idle"
    /\ barArgs = [value |-> 0, max |-> 0, width |-> 0, options |-> DefaultOptions]
    /\ barResult = Returned(<<>>)
    /\ barPc = "idle"

NextSize ==
    \/ \E m \in Managers : CallHideCursor(m)
    \/ \E m \in Managers : CallShowCursor(m)
    \/ \E m \in Managers : CallCleanup(m)
    \/ \E m \in Managers : GetWidth(m)
    \/ \E m \in Managers : GetHeight(m)
    \/ \E m \in Managers : GetIsTTY(m)
    \/ \E v \in TTYValues : StreamSetTTY(v)
    \/ \E c \in Sizes, r \in Sizes : StreamResize(c, r)

SpecSize == InitSize /\ [][NextSize]_vars

(***************************************************************************)
(* Vocabulary of the properties of TerminalManager.                        *)
(***************************************************************************)
\* the state was produced by a method call (not by construction or by the
\* stream changing its isTTY)
IsCall(l) == l.op \notin {"new", "stream"}

\* the chunks the stream received during the last call
Emitted == SubSeq(log, last.from + 1, Len(log))

Tagged(m, seqs) == [i \in 1 .. Len(seqs) |-> [by |-> m, d |-> seqs[i]]]

IsVisibilitySeq(e) == e.d \in {HIDE_CURSOR, SHOW_CURSOR}
WrittenBy(m, e) == e.by = m

\* the cursor-visibility sequences manager m has written, oldest first
VisibilityLog(m) ==
    SelectSeq(SelectSeq(log, LAMBDA e : WrittenBy(m, e)), IsVisibilitySeq)

HideSentBefore(m, n) == \E i \in 1 .. n : log[i] = [by |-> m, d |-> HIDE_CURSOR]

(***************************************************************************)
(* C1: after cleanup() returns, whatever calls came before, the manager's  *)
(* cursorHidden is false, and the call wrote either nothing or exactly one *)
(* show-cursor sequence, the latter only if the manager had sent a         *)
(* hide-cursor sequence before.                                            *)
(***************************************************************************)
C1_CleanupLeavesVisible ==
    last.op = "cleanup" =>
        /\ ~cursorHidden[last.m]
        /\ \/ Emitted = <<>>
           \/ /\ Emitted = Tagged(last.m, <<SHOW_CURSOR>>)
              /\ HideSentBefore(last.m, last.from)

(***************************************************************************)
(* C2: after cleanup() returns, the most recent cursor-visibility sequence *)
(* the manager has written to its stream, if there is one, is show-cursor, *)
(* whatever isTTY reported at each call.                                   *)
(***************************************************************************)
C2_CleanupLastSequenceIsShow ==
    last.op = "cleanup" =>
        LET v == VisibilityLog(last.m)
        IN  v # <<>> => v[Len(v)].d = SHOW_CURSOR

(***************************************************************************)
(* C3: hideCursor and showCursor are idempotent.  When a manager calls the *)
(* same one of them twice in a row, the second call writes nothing and     *)
(* leaves the manager's state as the first call left it; two hideCursor    *)
(* calls on a TTY, starting with the cursor visible, write hide-cursor     *)
(* exactly once between them, two on a non-TTY write nothing, and two      *)
(* showCursor calls write show-cursor at most once between them.           *)
(***************************************************************************)
C3_HideShowIdempotent ==
    [][(/\ last.op \in {"hideCursor", "showCursor"}
        /\ last'.op = last.op
        /\ last'.m = last.m)
       => LET both == SubSeq(log', last.from + 1, Len(log'))
          IN  /\ log' = log
              /\ cursorHidden' = cursorHidden
              /\ (last.op = "hideCursor" /\ Truthy(isTTY) /\ ~last.hidden)
                     => both = Tagged(last.m, <<HIDE_CURSOR>>)
              /\ (last.op = "hideCursor" /\ ~Truthy(isTTY)) => both = <<>>
              /\ last.op = "showCursor"
                     => both \in {<<>>, Tagged(last.m, <<SHOW_CURSOR>>)}
      ]_vars

\* hideCursor was called twice in a row on a TTY with the cursor visible at
\* first: the second call found the field set and wrote nothing
C3_Witness ==
    /\ last.op = "hideCursor"
    /\ Truthy(isTTY)
    /\ last.hidden
    /\ last.from = 1
    /\ log = Tagged(last.m, <<HIDE_CURSOR>>)

(***************************************************************************)
(* C4: no escape sequence reaches a stream that is not a TTY.  A call of   *)
(* hideCursor, showCursor, clearScreen, clearLine, moveUp, moveToLineStart *)
(* or cleanup made while isTTY is false or undefined writes nothing and    *)
(* does not change cursorHidden; the only call that adds to the log then   *)
(* is write(text), which adds exactly text.                                *)
(***************************************************************************)
C4_NoEscapeToNonTTY ==
    [][(~Truthy(isTTY) /\ IsCall(last'))
       => IF last'.op = "write"
          THEN log' = Append(log, [by |-> last'.m, d |-> Chunk(last'.t)])
          ELSE /\ log' = log
               /\ cursorHidden' = cursorHidden
      ]_vars

\* a gated method was called on a non-TTY stream that already held text
C4_Witness ==
    /\ ~Truthy(isTTY)
    /\ last.op = "clearLine"
    /\ Len(log) = 2
    /\ \A i \in 1 .. Len(log) : log[i].d.k = "text"

(***************************************************************************)
(* C5: in every state, for every manager, cursorHidden is true exactly     *)
(* when the last cursor-visibility sequence the manager wrote is           *)
(* hide-cursor (false when it wrote none), and the visibility sequences it *)
(* wrote alternate strictly, beginning with hide-cursor.                   *)
(***************************************************************************)
C5_FlagTracksLastSequence ==
    \A m \in Managers :
        LET v == VisibilityLog(m)
        IN  /\ cursorHidden[m] <=> (v # <<>> /\ v[Len(v)].d = HIDE_CURSOR)
            /\ \A i \in 1 .. Len(v) :
                   v[i].d = IF i % 2 = 1 THEN HIDE_CURSOR ELSE SHOW_CURSOR

\* a manager has hidden, shown and hidden the cursor again
C5_Witness ==
    \E m \in Managers : Len(VisibilityLog(m)) = 3 /\ cursorHidden[m]

(***************************************************************************)
(* C8: the stream receives the output of the calls in call order, nothing  *)
(* held back or reordered: every call leaves the log equal to the log      *)
(* before it followed by what that call emits, and clearScreen on a TTY    *)
(* emits clear-screen and then move-to-top-left.                           *)
(***************************************************************************)
EmitsOf(l, tty) ==
    CASE l.op = "hideCursor" ->
             IF tty /\ ~l.hidden THEN <<HIDE_CURSOR>> ELSE <<>>
      [] l.op \in {"showCursor", "cleanup"} ->
             IF tty /\ l.hidden THEN <<SHOW_CURSOR>> ELSE <<>>
      [] l.op = "clearScreen" ->
             IF tty THEN <<CLEAR_SCREEN, MOVE_TO_TOP>> ELSE <<>>
      [] l.op = "clearLine" -> IF tty THEN <<CLEAR_LINE>> ELSE <<>>
      [] l.op = "moveUp" ->
             IF tty /\ l.n > 0 THEN <<Esc("cursorUp", l.n, 0)>> ELSE <<>>
      [] l.op = "moveToLineStart" ->
             IF tty THEN <<Esc("cursorTo", 0, -1)>> ELSE <<>>
      [] l.op = "write" -> <<Chunk(l.t)>>
      [] OTHER -> <<>>

C8_OutputInCallOrder ==
    [][IsCall(last')
       => log' = log \o Tagged(last'.m, EmitsOf(last', Truthy(isTTY)))]_vars

\* clearScreen returned on a TTY after another manager's text
C8_Witness ==
    /\ last.op = "clearScreen"
    /\ Truthy(isTTY)
    /\ Len(log) = 3
    /\ log[1].d.k = "text"
    /\ log[1].by # last.m
    /\ Emitted = Tagged(last.m, <<CLEAR_SCREEN, MOVE_TO_TOP>>)

(***************************************************************************)
(* C9: write(text) hands exactly text to the stream whatever isTTY reports *)
(* and whatever the cursor state is, and it is the only method that does:  *)
(* after any other method returns on a non-TTY, that call wrote nothing.   *)
(***************************************************************************)
C9_WriteUnconditional ==
    /\ last.op = "write" =>
           /\ Emitted = Tagged(last.m, <<Chunk(last.t)>>)
           /\ cursorHidden[last.m] = last.hidden
    /\ (IsCall(last) /\ last.op # "write" /\ ~Truthy(isTTY)) => Emitted = <<>>

\* write returned on a non-TTY while the manager's cursor was hidden
C9_Witness ==
    /\ last.op = "write"
    /\ isTTY = "undefined"
    /\ cursorHidden[last.m]
    /\ Emitted = Tagged(last.m, <<Chunk("b")>>)

(***************************************************************************)
(* Vocabulary of the properties of createProgressBar.                      *)
(***************************************************************************)
BarDone == barPc = "done"
BarPercentage == Percentage(barArgs.value, barArgs.max)

(***************************************************************************)
(* C6: the percentage createProgressBar computes is 0 when max is not      *)
(* positive and lies between 0 and 100 inclusive for every value and max.  *)
(***************************************************************************)
C6_PercentageInRange ==
    BarDone =>
        /\ barArgs.max <= 0 => BarPercentage = Rat(0, 1)
        /\ ~RatLess(BarPercentage, Rat(0, 1))
        /\ ~RatLess(Rat(100, 1), BarPercentage)

(***************************************************************************)
(* C7: createProgressBar never throws: for every value, every max, every   *)
(* width >= 0 and every combination of options it returns a string.        *)
(***************************************************************************)
C7_NeverThrows == BarDone => ~barResult.threw

(***************************************************************************)
(* C10: with the default options and max > 0, a value above max gives the  *)
(* same string as value = max: the bar of width fill characters between    *)
(* the brackets, followed by " 100.0%".                                    *)
(***************************************************************************)
C10_OverflowSameAsFull ==
    (/\ BarDone
     /\ barArgs.options = DefaultOptions
     /\ barArgs.max > 0
     /\ barArgs.value > barArgs.max)
    => /\ barResult = createProgressBar(barArgs.max, barArgs.max,
                                        barArgs.width, DefaultOptions)
       /\ barResult =
              Returned(<<"[">> \o [i \in 1 .. barArgs.width |-> "U+2588"]
                         \o <<"]", " ", "1", "0", "0", ".", "0", "%">>)

\* createProgressBar(3, 2, 3) has returned
C10_Witness ==
    /\ BarDone
    /\ barArgs.options = DefaultOptions
    /\ barArgs.value = 3
    /\ barArgs.max = 2
    /\ barArgs.width = 3
    /\ ~barResult.threw
    /\ Len(barResult.s) = 3 + 2 + 7

(***************************************************************************)
(* C11: the colour of the bar is that of the first tier, in the order      *)
(* critical (percentage >= 90), high (>= 80), medium (>= 50), low (any     *)
(* percentage), that is supplied and whose threshold is met; a tier not    *)
(* supplied is passed over; with no such tier there is no colour.  The     *)
(* returned string carries that colour after the left bracket, and the     *)
(* colour-reset sequence exactly when the colour is not empty.             *)
(***************************************************************************)
TierOrder == <<"critical", "high", "medium", "low">>
TierMet(tier, percentage) ==
    CASE tier = "critical" -> AtLeast(percentage, 90)
      [] tier = "high" -> AtLeast(percentage, 80)
      [] tier = "medium" -> AtLeast(percentage, 50)
      [] OTHER -> TRUE

WinningTiers(percentage, colors) ==
    {i \in 1 .. 4 : /\ colors[TierOrder[i]].set
                    /\ TierMet(TierOrder[i], percentage)
                    /\ \A j \in 1 .. (i - 1) :
                           ~(colors[TierOrder[j]].set
                             /\ TierMet(TierOrder[j], percentage))}

ExpectedColor(percentage, colors) ==
    IF WinningTiers(percentage, colors) = {}
    THEN <<>>
    ELSE colors[TierOrder[CHOOSE i \in WinningTiers(percentage, colors) : TRUE]].s

ColorTokens == {"<low>", "<medium>", "<high>", "<critical>"}

C11_ColorSelection ==
    BarDone =>
        LET expected == ExpectedColor(BarPercentage, barArgs.options.colors)
            left == Len(barArgs.options.leftBracket)
            str == barResult.s
        IN  /\ Color(BarPercentage, barArgs.options.colors) = expected
            /\ ~barResult.threw =>
                   /\ SubSeq(str, left + 1, left + Len(expected)) = expected
                   /\ \A i \in 1 .. Len(str) :
                          str[i] \in ColorTokens
                              => (i = left + 1 /\ expected = <<str[i]>>)
                   /\ (\E i \in 1 .. Len(str) : <<str[i]>> = RESET_COLOR)
                          <=> expected # <<>>

\* at 80% with critical and medium supplied and high left out, the bar was
\* returned in the medium colour
C11_Witness ==
    /\ BarDone
    /\ barArgs.value = 4
    /\ barArgs.max = 5
    /\ barArgs.options.colors.critical.set
    /\ ~barArgs.options.colors.high.set
    /\ barArgs.options.colors.medium.set
    /\ barArgs.options.colors.low.set
    /\ ~barResult.threw
    /\ barResult.s[Len(barArgs.options.leftBracket) + 1] = "<medium>"
    /\ \E i \in 1 .. Len(barResult.s) : <<barResult.s[i]>> = RESET_COLOR

(***************************************************************************)
(* Vocabulary of the bar body.                                             *)
(***************************************************************************)
BarFillWidth == FillWidth(BarPercentage, barArgs.width)
BarEmptyWidth == EmptyWidth(BarPercentage, barArgs.width)

\* how many times a glyph (the first character of fillChar or emptyChar)
\* occurs in a returned string
Cells(str, glyph) == Cardinality({i \in 1 .. Len(str) : str[i] = glyph[1]})

(***************************************************************************)
(* C16: for every value, max and width >= 0 the bar body has exactly width *)
(* cells: fillWidth and emptyWidth both lie in 0 .. width and the returned *)
(* string holds fillWidth fill characters and emptyWidth empty characters, *)
(* width in all.                                                           *)
(***************************************************************************)
C16_BodyHasWidthCells ==
    BarDone =>
        /\ 0 <= BarFillWidth /\ BarFillWidth <= barArgs.width
        /\ 0 <= BarEmptyWidth /\ BarEmptyWidth <= barArgs.width
        /\ ~barResult.threw
        /\ Cells(barResult.s, barArgs.options.fillChar) = BarFillWidth
        /\ Cells(barResult.s, barArgs.options.emptyChar) = BarEmptyWidth
        /\ Cells(barResult.s, barArgs.options.fillChar)
             + Cells(barResult.s, barArgs.options.emptyChar) = barArgs.width

(***************************************************************************)
(* C17: for fixed max > 0 and width, the number of fill cells does not     *)
(* decrease as value grows, and is width once value >= max: fillWidth of a *)
(* call is at most fillWidth of the same call with any larger value, and   *)
(* a returned string holds fillWidth fill characters.                      *)
(***************************************************************************)
C17_FillMonotone ==
    (BarDone /\ barArgs.max > 0) =>
        /\ barArgs.value >= barArgs.max => BarFillWidth = barArgs.width
        /\ ~barResult.threw =>
               Cells(barResult.s, barArgs.options.fillChar) = BarFillWidth
        /\ \A value2 \in Values :
               value2 >= barArgs.value =>
                   BarFillWidth <= FillWidth(Percentage(value2, barArgs.max),
                                             barArgs.width)

\* createProgressBar(1, 2, 3) returned a bar of two fill cells, fewer than
\* the three of createProgressBar(2, 2, 3)
C17_Witness ==
    /\ BarDone
    /\ barArgs.value = 1
    /\ barArgs.max = 2
    /\ barArgs.width = 3
    /\ ~barResult.threw
    /\ Cells(barResult.s, barArgs.options.fillChar) = 2
    /\ FillWidth(Percentage(2, 2), 3) = 3

(***************************************************************************)
(* C14: moveUp(n) writes exactly one move-cursor-up(n) sequence when the   *)
(* stream is a TTY and n > 0; for n <= 0, and for every n on a non-TTY, it *)
(* writes nothing; in no case does it change the cursor state.             *)
(***************************************************************************)
C14_MoveUp ==
    last.op = "moveUp" =>
        /\ (Truthy(isTTY) /\ last.n > 0)
               => Emitted = <<[by |-> last.m, d |-> Esc("cursorUp", last.n, 0)]>>
        /\ (~Truthy(isTTY) \/ last.n <= 0) => Len(log) = last.from
        /\ cursorHidden[last.m] = last.hidden

\* moveUp(0) returned on a TTY that had already received a moveUp(1)
C14_Witness ==
    /\ last.op = "moveUp"
    /\ last.n = 0
    /\ Truthy(isTTY)
    /\ last.from = 1
    /\ log = Tagged(last.m, <<Esc("cursorUp", 1, 0)>>)

(***************************************************************************)
(* C18: moveToLineStart() on a TTY writes exactly one absolute-column      *)
(* sequence, for 1-based column 1, which is cursor-to column 0 on the      *)
(* wire; MOVE_TO_COLUMN(n) is cursor-to column n - 1 for every n; on a     *)
(* non-TTY moveToLineStart() writes nothing.                               *)
(***************************************************************************)
MaxColumn == 3      \* MOVE_TO_COLUMN is looked at for columns 1 .. MaxColumn

C18_MoveToLineStart ==
    /\ \A n \in 1 .. MaxColumn :
           /\ MOVE_TO_COLUMN(n).k = "cursorTo"
           /\ MOVE_TO_COLUMN(n).a = n - 1
           /\ MOVE_TO_COLUMN(n).b = -1
    /\ last.op = "moveToLineStart" =>
           IF Truthy(isTTY)
           THEN /\ Len(log) = last.from + 1
                /\ log[Len(log)].by = last.m
                /\ log[Len(log)].d.k = "cursorTo"
                /\ log[Len(log)].d.a = 0
                /\ log[Len(log)].d.b = -1
           ELSE Len(log) = last.from

\* moveToLineStart returned on a TTY
C18_Witness ==
    /\ last.op = "moveToLineStart"
    /\ Truthy(isTTY)
    /\ Len(log) = 2
    /\ log[2].d = Esc("cursorTo", 0, -1)

(***************************************************************************)
(* C13: the width and height getters return the columns and rows the       *)
(* stream reports when that is a positive number, and 80 and 24 when the   *)
(* stream reports none or zero, whatever isTTY is; reading them writes     *)
(* nothing to the stream and leaves the cursor state as it was.            *)
(***************************************************************************)
Usable(x) == x.def /\ x.v > 0

C13_WidthHeight ==
    /\ last.op = "width" =>
           /\ last.n = IF Usable(columns) THEN columns.v ELSE 80
           /\ Len(log) = last.from
           /\ cursorHidden[last.m] = last.hidden
    /\ last.op = "height" =>
           /\ last.n = IF Usable(rows) THEN rows.v ELSE 24
           /\ Len(log) = last.from
           /\ cursorHidden[last.m] = last.hidden

\* width was read as 80 from a TTY reporting zero columns, the cursor hidden
C13_Witness ==
    /\ last.op = "width"
    /\ last.n = 80
    /\ columns = Reported(0)
    /\ rows = Reported(2)
    /\ Truthy(isTTY)
    /\ cursorHidden[last.m]

(***************************************************************************)
(* C15: a manager's cursorHidden changes only in that manager's own        *)
(* hideCursor, showCursor or cleanup call: no other method or getter       *)
(* changes it, and no call on one manager changes the field of the other   *)
(* manager bound to the same stream.                                       *)
(***************************************************************************)
C15_FlagOwnedByHideShow ==
    [][\A m \in Managers :
           cursorHidden'[m] # cursorHidden[m]
               => /\ last'.m = m
                  /\ last'.op \in {"hideCursor", "showCursor", "cleanup"}]_vars

\* one manager hid the cursor on the shared stream, then the other called
\* hideCursor too: each has its own field
C15_Witness ==
    /\ last.op = "hideCursor"
    /\ last.m = "m2"
    /\ ~last.hidden
    /\ cursorHidden["m1"]
    /\ cursorHidden["m2"]
    /\ log = <<[by |-> "m1", d |-> HIDE_CURSOR], [by |-> "m2", d |-> HIDE_CURSOR]>>

(***************************************************************************)
(* C12: centerText(text, width) returns text unchanged when the display    *)
(* width of text is >= width.  Otherwise it returns text between two runs  *)
(* of spaces: the left one floor((width - displayWidth) / 2) long, the     *)
(* right one as long or one longer, never shorter, and left + displayWidth *)
(* + right = width exactly.                                                *)
(***************************************************************************)
Spaces(n) == [i \in 1 .. n |-> " "]

C12_CenterText ==
    centerPc = "done" =>
        LET displayWidth == stringWidth(centerArgs.text)
            room == centerArgs.width - displayWidth
        IN  IF room <= 0
            THEN centerResult = centerArgs.text
            ELSE \E left \in 0 .. room, right \in 0 .. room :
                     /\ centerResult = Spaces(left) \o centerArgs.text \o Spaces(right)
                     /\ 2 * left <= room /\ room < 2 * left + 2
                     /\ right \in {left, left + 1}
                     /\ left + displayWidth + right = centerArgs.width
                     /\ Len(centerResult) = Len(centerArgs.text) + room

\* a double-width character and a styling sequence were centred in 5
\* columns: one space to the left, two to the right
C12_Witness ==
    /\ centerPc = "done"
    /\ centerArgs = [text |-> <<"ESC[1m", "U+4E2D">>, width |-> 5]
    /\ centerResult = <<" ", "ESC[1m", "U+4E2D", " ", " ">>

====
